---- MODULE Spec2Model ----
(***************************************************************************)
(* A model of the relayer keyring (relayer/src/keyring.rs): the key-entry  *)
(* and key-file data, HD derivation and address computation, the import    *)
(* check of TryFrom<KeyFile>, the two KeyStore backends (Memory, Test) and *)
(* the KeyRing facade.                                                     *)
(*                                                                         *)
(* Cryptographic primitives of external crates (bip39, bitcoin, sha2,      *)
(* ripemd160, bech32, k256) are modelled over small domains: a byte is 0   *)
(* or 1, a compressed public key has PubKeyLen bytes, a digest has one     *)
(* byte.  Text is a sequence of one-character strings where the code       *)
(* inspects characters (key names, file names) and a bech32 string is the  *)
(* triple (hrp, data, checksum) it spells.                                 *)
(***************************************************************************)
EXTENDS FiniteSets, Integers, Sequences, TLC

VARIABLES
    account_prefix, \* KeyRing::account_prefix(): the prefix the backend carries
    backend,        \* which variant of the KeyRing enum is active
    keys,           \* Memory.keys: key name -> KeyEntry
    files,          \* the directory Test.store: file name -> file content
    op,             \* the last call made on the KeyRing and its arguments
    result,         \* what that call returned
    added,          \* history: the (name, entry) of every add_key that returned Ok
    pc              \* "running", or "panicked" once an assertion failed

vars == <<account_prefix, backend, keys, files, op, result, added, pc>>

----------------------------------------------------------------------------
(* Bounds of the model *)

\* Number of add_key calls that may succeed in one behaviour.
MaxAdds == 2

\* Length in bytes of a compressed public key (33 in the bitcoin crate).
PubKeyLen == 2

\* Most extraneous leading bytes an encoded public key of a key file carries.
MaxLead == 1

----------------------------------------------------------------------------
(* Results: Result<T, Error> and a panic *)

Ok(v) == [kind |-> "Ok", value |-> <<v>>]

Err(k) == [kind |-> k, value |-> <<>>]

Panic == [kind |-> "Panic", value |-> <<>>]

IsOk(r) == r.kind = "Ok"

Unwrap(r) == r.value[1]

----------------------------------------------------------------------------
(* Byte strings *)

Byte == 0..1

RECURSIVE SeqsOfLen(_)
SeqsOfLen(n) ==
    IF n = 0 THEN {<<>>}
    ELSE {Append(s, b) : s \in SeqsOfLen(n - 1), b \in Byte}

ByteSeqs(maxLen) == UNION {SeqsOfLen(n) : n \in 0..maxLen}

RECURSIVE SumBytes(_)
SumBytes(s) == IF s = <<>> THEN 0 ELSE Head(s) + SumBytes(Tail(s))

----------------------------------------------------------------------------
(* CoinType *)

ATOM == 118

CoinTypeDefault == ATOM

\* Option<CoinType>::unwrap_or_default; an Option is a sequence of length 0 or 1.
unwrap_or_default(coin_type) ==
    IF coin_type = <<>> THEN CoinTypeDefault ELSE coin_type[1]

----------------------------------------------------------------------------
(* HD derivation *)

\* Mnemonic::from_phrase accepts the phrases of the word list whose checksum
\* is right; each stands for its entropy.
Entropy == [phrase \in {"olympic cradle", "abandon about"} |->
               IF phrase = "olympic cradle" THEN 0 ELSE 1]

\* The largest index a hardened path segment holds, 2^31 - 1.  A u32 coin
\* type above it makes StandardHDPath::try_from fail; the coin types of the
\* inputs below all fit.
HardenedMax == 2147483647

private_key_from_mnemonic(mnemonic_words, coin_type) ==
    IF mnemonic_words \notin DOMAIN Entropy
    THEN Err("InvalidMnemonic")
    ELSE IF coin_type > HardenedMax
    THEN Err("InvalidHdPath")
    ELSE Ok([seed |-> Entropy[mnemonic_words],
             path |-> <<44, coin_type, 0, 0, 0>>])

\* ExtendedPubKey::from_private: the curve point of the private key, which
\* the model names by the key it is the multiple of.
from_private(private_key) == [public_key |-> [point |-> private_key]]

\* The compressed encoding of a point: a different byte string for each
\* (seed, coin type) of the model, n bytes long.
RECURSIVE PointBytes(_, _)
PointBytes(point, n) ==
    IF n = 0 THEN <<>>
    ELSE Append(PointBytes(point, n - 1),
                IF n = 1 THEN (point.path[2] \div 2) % 2
                ELSE IF n = 2
                THEN ((point.path[2] \div 2) + point.seed + 1) % 2
                ELSE n % 2)

\* PublicKey::to_bytes
to_bytes(public_key) == PointBytes(public_key.point, PubKeyLen)

----------------------------------------------------------------------------
(* Address and account *)

\* RIPEMD160(SHA256(bytes)): a one-byte digest folded over the input.
RECURSIVE Digest(_)
Digest(bytes) ==
    IF bytes = <<>> THEN 0
    ELSE (3 * Digest(SubSeq(bytes, 1, Len(bytes) - 1))
          + bytes[Len(bytes)] + 1) % 4

get_address(pk) == <<Digest(to_bytes(pk.public_key))>>

\* The bech32 checksum covers the human-readable part and the data.
Bech32Checksum(hrp, data) == <<hrp, SumBytes(data) % 2>>

\* bech32::encode: fails on an empty human-readable part.
bech32_encode(hrp, data) ==
    IF hrp = "" THEN Err("Bech32Account")
    ELSE Ok([hrp |-> hrp, data |-> data,
             checksum |-> Bech32Checksum(hrp, data)])

\* decode_bech32: verifies the checksum, drops the human-readable part.
decode_bech32(input) ==
    IF input.hrp = "" \/ input.checksum # Bech32Checksum(input.hrp, input.data)
    THEN Err("Bech32Account")
    ELSE Ok(input.data)

----------------------------------------------------------------------------
(* EncodedPubKey (module pub_key) *)

PubKeyHrp == "cosmospub"

\* EncodedPubKey::from_str then into_bytes: the bytes the string encodes.
encoded_pubkey_bytes(pubkey) ==
    IF pubkey.hrp = "" \/ pubkey.checksum # Bech32Checksum(pubkey.hrp, pubkey.data)
    THEN Err("InvalidKey")
    ELSE Ok(pubkey.data)

\* The textual encoding of a byte string as an encoded public key.
encode_pubkey(bytes) == Unwrap(bech32_encode(PubKeyHrp, bytes))

----------------------------------------------------------------------------
(* KeyEntry and KeyFile *)

KeyEntry(public_key, private_key, account, address, coin_type) ==
    [public_key |-> public_key, private_key |-> private_key,
     account |-> account, address |-> address, coin_type |-> coin_type]

KeyFile(address, pubkey, mnemonic, coin_type) ==
    [name |-> "key", type |-> "local", address |-> address,
     pubkey |-> pubkey, mnemonic |-> mnemonic, coin_type |-> coin_type]

\* Vec::split_off(at): the elements from index at (counted from 0) on.
split_off(v, at) == SubSeq(v, at + 1, Len(v))

\* The import check without its comparison of the public keys.
try_from_unchecked(key_file) ==
    LET address == decode_bech32(key_file.address)
        encoded == encoded_pubkey_bytes(key_file.pubkey)
        coin_type == unwrap_or_default(key_file.coin_type)
        private_key == private_key_from_mnemonic(key_file.mnemonic, coin_type)
    IN  IF ~IsOk(address) THEN address
        ELSE IF ~IsOk(encoded) THEN encoded
        ELSE IF ~IsOk(private_key) THEN private_key
        ELSE LET derived_pubkey == from_private(Unwrap(private_key))
                 derived_pubkey_bytes == to_bytes(derived_pubkey.public_key)
             IN  IF ~(Len(derived_pubkey_bytes) <= Len(Unwrap(encoded)))
                 THEN Panic
                 ELSE Ok(KeyEntry(derived_pubkey, Unwrap(private_key),
                                  key_file.address, Unwrap(address), coin_type))

\* The import check with the coin type of the key file ignored.
try_from_default_coin(key_file) ==
    LET address == decode_bech32(key_file.address)
        encoded == encoded_pubkey_bytes(key_file.pubkey)
        coin_type == CoinTypeDefault
        private_key == private_key_from_mnemonic(key_file.mnemonic, coin_type)
    IN  IF ~IsOk(address) THEN address
        ELSE IF ~IsOk(encoded) THEN encoded
        ELSE IF ~IsOk(private_key) THEN private_key
        ELSE LET derived_pubkey == from_private(Unwrap(private_key))
                 derived_pubkey_bytes == to_bytes(derived_pubkey.public_key)
                 all_bytes == Unwrap(encoded)
             IN  IF ~(Len(derived_pubkey_bytes) <= Len(all_bytes))
                 THEN Panic
                 ELSE LET keyfile_pubkey_bytes ==
                              split_off(all_bytes,
                                        Len(all_bytes) - Len(derived_pubkey_bytes))
                      IN  IF keyfile_pubkey_bytes # derived_pubkey_bytes
                          THEN [kind |-> "PublicKeyMismatch",
                                value |-> <<keyfile_pubkey_bytes,
                                            derived_pubkey_bytes>>]
                          ELSE Ok(KeyEntry(derived_pubkey, Unwrap(private_key),
                                           key_file.address, Unwrap(address),
                                           coin_type))

\* impl TryFrom<KeyFile> for KeyEntry
try_from(key_file) ==
    LET address == decode_bech32(key_file.address)
        encoded == encoded_pubkey_bytes(key_file.pubkey)
        coin_type == unwrap_or_default(key_file.coin_type)
        private_key == private_key_from_mnemonic(key_file.mnemonic, coin_type)
    IN  IF ~IsOk(address) THEN address
        ELSE IF ~IsOk(encoded) THEN encoded
        ELSE IF ~IsOk(private_key) THEN private_key
        ELSE LET derived_pubkey == from_private(Unwrap(private_key))
                 derived_pubkey_bytes == to_bytes(derived_pubkey.public_key)
                 all_bytes == Unwrap(encoded)
             IN  \* assert!(derived_pubkey_bytes.len() <= keyfile_pubkey_bytes.len())
                 IF ~(Len(derived_pubkey_bytes) <= Len(all_bytes))
                 THEN Panic
                 ELSE LET keyfile_pubkey_bytes ==
                              split_off(all_bytes,
                                        Len(all_bytes) - Len(derived_pubkey_bytes))
                      IN  IF keyfile_pubkey_bytes # derived_pubkey_bytes
                          THEN [kind |-> "PublicKeyMismatch",
                                value |-> <<keyfile_pubkey_bytes,
                                            derived_pubkey_bytes>>]
                          ELSE Ok(KeyEntry(derived_pubkey, Unwrap(private_key),
                                           key_file.address, Unwrap(address),
                                           coin_type))

\* serde_json::from_str::<KeyFile>: a document is a key file or is malformed.
from_str(key_file_content) ==
    IF key_file_content.doc = "KeyFile"
    THEN Ok(key_file_content.body)
    ELSE Err("InvalidKey")

\* The derivation of KeyRing::key_from_mnemonic under a given prefix.
derive_entry(prefix, mnemonic_words, coin_type) ==
    LET private_key == private_key_from_mnemonic(mnemonic_words, coin_type)
    IN  IF ~IsOk(private_key) THEN private_key
        ELSE LET public_key == from_private(Unwrap(private_key))
                 address == get_address(public_key)
                 account == bech32_encode(prefix, address)
             IN  IF ~IsOk(account) THEN account
                 ELSE Ok(KeyEntry(public_key, Unwrap(private_key),
                                  Unwrap(account), address, coin_type))

----------------------------------------------------------------------------
(* Paths of the Test backend: Path::file_stem, extension, set_extension *)

KEYSTORE_FILE_EXTENSION == <<"j", "s", "o", "n">>

DotPositions(file) == {i \in 1..Len(file) : file[i] = "."}

LastDot(file) == CHOOSE i \in DotPositions(file) :
                     \A j \in DotPositions(file) : j <= i

\* std::path rsplit_file_at_dot: (file stem, extension), each an Option.
rsplit_file_at_dot(file) ==
    IF file = <<".", ".">> \/ DotPositions(file) = {} \/ LastDot(file) = 1
    THEN [before |-> <<file>>, after |-> <<>>]
    ELSE [before |-> <<SubSeq(file, 1, LastDot(file) - 1)>>,
          after |-> <<SubSeq(file, LastDot(file) + 1, Len(file))>>]

file_stem(file) == rsplit_file_at_dot(file).before

extension(file) == rsplit_file_at_dot(file).after

set_extension(file, ext) == file_stem(file)[1] \o <<".">> \o ext

\* self.store.join(key_name) then set_extension: the file of a key name,
\* as a file name inside the store directory.
key_file_path(key_name) == set_extension(key_name, KEYSTORE_FILE_EXTENSION)

----------------------------------------------------------------------------
(* Backends *)

\* The orders in which a collection may be enumerated.
Orders(S) ==
    {o \in [1..Cardinality(S) -> S] : \A i, j \in DOMAIN o : o[i] = o[j] => i = j}

Insert(map, k, v) == [x \in DOMAIN map \cup {k} |-> IF x = k THEN v ELSE map[x]]

Memory_get_key(key_name) ==
    IF key_name \in DOMAIN keys THEN Ok(keys[key_name]) ELSE Err("KeyNotFound")

\* Memory::add_key without its contains_key guard.
Memory_add_key_overwrite(key_name, key_entry) ==
    [result |-> Ok(<<>>), keys |-> Insert(keys, key_name, key_entry)]

Memory_add_key(key_name, key_entry) ==
    IF key_name \in DOMAIN keys
    THEN [result |-> Err("ExistingKey"), keys |-> keys]
    ELSE [result |-> Ok(<<>>), keys |-> Insert(keys, key_name, key_entry)]

\* Memory::keys, the map enumerated in the given order.
Memory_keys(order) == Ok([i \in DOMAIN order |-> <<order[i], keys[order[i]]>>])

\* serde_json::to_writer_pretty of a KeyEntry.
to_writer_pretty(key_entry) == [doc |-> "KeyEntry", body |-> key_entry]

Test_get_key(key_name) ==
    LET key_file == key_file_path(key_name)
    IN  IF key_file \notin DOMAIN files THEN Err("KeyStore")
        ELSE IF files[key_file].doc # "KeyEntry" THEN Err("KeyStore")
        ELSE Ok(files[key_file].body)

\* File::create creates the file or truncates the one that exists.
Test_add_key(key_name, key_entry) ==
    [result |-> Ok(<<>>),
     files |-> Insert(files, key_file_path(key_name), to_writer_pretty(key_entry))]

\* Result<Vec<_>, _>::from_iter over the listed names: the first error, or all.
RECURSIVE collect(_)
collect(names) ==
    IF names = <<>> THEN Ok(<<>>)
    ELSE LET key == Test_get_key(Head(names))
             rest == collect(Tail(names))
         IN  IF ~IsOk(key) THEN key
             ELSE IF ~IsOk(rest) THEN rest
             ELSE Ok(<<<<Head(names), Unwrap(key)>>>> \o Unwrap(rest))

\* Test::keys, the directory read in the given order.
Test_keys(dir) ==
    LET paths == SelectSeq(dir, LAMBDA path :
                     extension(path) = <<KEYSTORE_FILE_EXTENSION>>)
    IN  collect([i \in DOMAIN paths |-> file_stem(paths[i])[1]])

----------------------------------------------------------------------------
(* Inputs *)

\* Key names: plain, with an inner dot, with a leading dot.  None is empty,
\* ".." or holds a path separator.
KeyNames == {<<"k">>, <<"a", ".", "b">>, <<"a", ".", "c">>, <<".", "k">>}

Prefixes == {"cosmos", "osmo", ""}

Mnemonics == DOMAIN Entropy \cup {"not a phrase"}

CoinTypes == {ATOM, 60}

Messages == {<<>>, <<1, 0>>}

\* The entries callers hand to add_key: those this ring derives from each
\* mnemonic under the default coin type.
KeyEntryInputs ==
    {Unwrap(r) : r \in {d \in {derive_entry(account_prefix, m, CoinTypeDefault) :
                                   m \in Mnemonics} : IsOk(d)}}

\* The addresses of the keys the mnemonics derive.
DerivedAddresses ==
    {get_address(from_private(Unwrap(k))) :
        k \in {d \in {private_key_from_mnemonic(m, c) :
                          m \in Mnemonics, c \in CoinTypes} : IsOk(d)}}

\* A bech32 string whose checksum is wrong.
Corrupt(string) == [string EXCEPT !.checksum = <<"", 0>>]

AddressStrings ==
    LET good == {Unwrap(bech32_encode(hrp, a)) :
                     hrp \in Prefixes \ {""}, a \in DerivedAddresses}
    IN  good \cup {Corrupt(CHOOSE g \in good : TRUE)}

PubKeyStrings ==
    LET good == {encode_pubkey(b) : b \in ByteSeqs(PubKeyLen + MaxLead)}
    IN  good \cup {Corrupt(encode_pubkey(<<>>))}

KeyFiles ==
    {KeyFile(a, p, m, c) : a \in AddressStrings, p \in PubKeyStrings,
                           m \in Mnemonics,
                           c \in {<<>>, <<ATOM>>, <<60>>}}

Malformed == [doc |-> "garbage", body |-> <<>>]

Document(key_file) == [doc |-> "KeyFile", body |-> key_file]

SeedFileContents == {Malformed} \cup {Document(kf) : kf \in KeyFiles}

\* The key file a producer writes for a derived entry: its account, its
\* public key encoded after `lead` extra bytes, the mnemonic, the coin type.
ExportKeyFile(entry, lead, mnemonic_words) ==
    KeyFile(entry.account,
            encode_pubkey(lead \o to_bytes(entry.public_key.public_key)),
            mnemonic_words, <<entry.coin_type>>)

\* The seed files the store operations are interleaved with: a malformed
\* one, the exports of the ring's own entries, one with a truncated key.
SeedFileSamples ==
    {Malformed}
    \cup {Document(ExportKeyFile(e, <<>>, "olympic cradle")) :
            e \in {x \in KeyEntryInputs : x.private_key.seed = 0}}
    \cup {Document(KeyFile(CHOOSE a \in AddressStrings : IsOk(decode_bech32(a)),
                           encode_pubkey(<<>>), "olympic cradle", <<>>))}

----------------------------------------------------------------------------
(* The KeyRing facade *)

KeyRing_get_key(key_name) ==
    IF backend = "Memory" THEN Memory_get_key(key_name)
    ELSE Test_get_key(key_name)

\* k256 SigningKey::sign: deterministic in the key and the message.
sign(private_key, msg) == [signing_key |-> private_key, msg |-> msg]

Init ==
    /\ account_prefix \in Prefixes
    /\ backend \in {"Memory", "Test"}
    /\ keys = [x \in {} |-> x]
    /\ files = [x \in {} |-> x]
    /\ op = [name |-> "new"]
    /\ result = Ok(<<>>)
    /\ added = <<>>
    /\ pc = "running"

get_key(key_name) ==
    /\ pc = "running"
    /\ op' = [name |-> "get_key", key_name |-> key_name]
    /\ result' = KeyRing_get_key(key_name)
    /\ UNCHANGED <<account_prefix, backend, keys, files, added, pc>>

add_key(key_name, key_entry) ==
    /\ pc = "running"
    /\ Len(added) < MaxAdds
    /\ op' = [name |-> "add_key", key_name |-> key_name, key_entry |-> key_entry]
    /\ IF backend = "Memory"
       THEN /\ result' = Memory_add_key(key_name, key_entry).result
            /\ keys' = Memory_add_key(key_name, key_entry).keys
            /\ files' = files
       ELSE /\ result' = Test_add_key(key_name, key_entry).result
            /\ files' = Test_add_key(key_name, key_entry).files
            /\ keys' = keys
    /\ added' = IF IsOk(result') THEN Append(added, <<key_name, key_entry>>)
                ELSE added
    /\ UNCHANGED <<account_prefix, backend, pc>>

keys_list ==
    /\ pc = "running"
    /\ op' = [name |-> "keys"]
    /\ IF backend = "Memory"
       THEN \E order \in Orders(DOMAIN keys) : result' = Memory_keys(order)
       ELSE \E dir \in Orders(DOMAIN files) : result' = Test_keys(dir)
    /\ UNCHANGED <<account_prefix, backend, keys, files, added, pc>>

key_from_seed_file(key_file_content) ==
    /\ pc = "running"
    /\ op' = [name |-> "key_from_seed_file", content |-> key_file_content]
    /\ result' = IF IsOk(from_str(key_file_content))
                 THEN try_from(Unwrap(from_str(key_file_content)))
                 ELSE from_str(key_file_content)
    /\ pc' = IF result' = Panic THEN "panicked" ELSE pc
    /\ UNCHANGED <<account_prefix, backend, keys, files, added>>

\* key_from_mnemonic made to store the entry it derives.
key_from_mnemonic_storing(mnemonic_words, coin_type) ==
    /\ pc = "running"
    /\ op' = [name |-> "key_from_mnemonic", mnemonic_words |-> mnemonic_words,
              coin_type |-> coin_type]
    /\ result' = derive_entry(account_prefix, mnemonic_words, coin_type)
    /\ IF IsOk(result') /\ backend = "Memory"
       THEN keys' = Insert(keys, <<"k">>, Unwrap(result'))
       ELSE keys' = keys
    /\ IF IsOk(result') /\ backend = "Test"
       THEN files' = Insert(files, key_file_path(<<"k">>),
                            to_writer_pretty(Unwrap(result')))
       ELSE files' = files
    /\ UNCHANGED <<account_prefix, backend, added, pc>>

key_from_mnemonic(mnemonic_words, coin_type) ==
    /\ pc = "running"
    /\ op' = [name |-> "key_from_mnemonic", mnemonic_words |-> mnemonic_words,
              coin_type |-> coin_type]
    /\ result' = derive_entry(account_prefix, mnemonic_words, coin_type)
    /\ UNCHANGED <<account_prefix, backend, keys, files, added, pc>>

sign_msg(key_name, msg) ==
    /\ pc = "running"
    /\ op' = [name |-> "sign_msg", key_name |-> key_name, msg |-> msg]
    /\ result' = IF IsOk(KeyRing_get_key(key_name))
                 THEN Ok(sign(Unwrap(KeyRing_get_key(key_name)).private_key, msg))
                 ELSE KeyRing_get_key(key_name)
    /\ UNCHANGED <<account_prefix, backend, keys, files, added, pc>>

Next ==
    \/ \E key_name \in KeyNames : get_key(key_name)
    \/ \E key_name \in KeyNames, key_entry \in KeyEntryInputs :
           add_key(key_name, key_entry)
    \/ keys_list
    \/ \E content \in SeedFileSamples : key_from_seed_file(content)
    \/ \E m \in Mnemonics, c \in CoinTypes : key_from_mnemonic(m, c)
    \/ \E key_name \in KeyNames, msg \in Messages : sign_msg(key_name, msg)

Spec == Init /\ [][Next]_vars

\* The derivation and the import on their own, over every key file: both
\* are functions of their arguments and the prefix, so each behaviour makes
\* one call on a ring just constructed.
NextImport ==
    /\ op.name = "new"
    /\ \/ \E content \in SeedFileContents : key_from_seed_file(content)
       \/ \E m \in Mnemonics, c \in CoinTypes : key_from_mnemonic(m, c)

ImportSpec == Init /\ [][NextImport]_vars

----------------------------------------------------------------------------
(* Properties *)

\* The names under which add_key has succeeded.
AddedNames == {added[i][1] : i \in DOMAIN added}

\* No name was added twice.
DistinctAdds == \A i, j \in DOMAIN added : added[i][1] = added[j][1] => i = j

Elements(s) == {s[i] : i \in DOMAIN s}

\* C1: on the Memory backend, add_key under a name that is already stored
\* returns ExistingKey and leaves the map as it was, and no step ever
\* changes the entry stored under a name, so get_key keeps returning it.
C1_MemoryAddExisting ==
    [][backend = "Memory" =>
          /\ \A k \in DOMAIN keys : k \in DOMAIN keys' /\ keys'[k] = keys[k]
          /\ (op'.name = "add_key" /\ op'.key_name \in DOMAIN keys)
                 => (result'.kind = "ExistingKey" /\ keys' = keys)]_vars

\* C1 witness: a second add_key under a stored name, with another entry,
\* was refused.
C1_Witness ==
    /\ backend = "Memory"
    /\ op.name = "add_key"
    /\ result.kind = "ExistingKey"
    /\ op.key_name \in DOMAIN keys
    /\ keys[op.key_name] # op.key_entry
    /\ Memory_get_key(op.key_name) = Ok(added[1][2])

\* C2: on the Test backend, add_key under a name whose key file exists
\* returns ExistingKey and leaves the file as it was.
C2_TestAddNoOverwrite ==
    [][(backend = "Test" /\ op'.name = "add_key"
          /\ key_file_path(op'.key_name) \in DOMAIN files)
          => (result'.kind = "ExistingKey" /\ files' = files)]_vars

\* C5: after add_key has succeeded under pairwise distinct names on a
\* backend that started empty, keys() returns one pair for each of them,
\* the name paired with the entry added under it, and nothing else.
C5_ListingComplete ==
    (op.name = "keys" /\ DistinctAdds) =>
        /\ IsOk(result)
        /\ Len(Unwrap(result)) = Len(added)
        /\ Elements(Unwrap(result)) = Elements(added)

\* C6: get_key of a name under which no add_key has succeeded fails with
\* KeyNotFound, on either backend, and changes nothing.
C6_AbsentIsKeyNotFound ==
    [][(op'.name = "get_key" /\ op'.key_name \notin AddedNames)
          => /\ result'.kind = "KeyNotFound"
             /\ UNCHANGED <<keys, files, added>>]_vars

ReturnedEntry ==
    op.name \in {"key_from_mnemonic", "key_from_seed_file"} /\ IsOk(result)

\* C3: the address of every entry a derivation or an import returns is
\* the hash of the entry's public key.
C3_AddressIsHash160 ==
    ReturnedEntry =>
        Unwrap(result).address = get_address(Unwrap(result).public_key)

\* C8: on a ring whose prefix bech32 encodes, the account of every entry
\* a derivation or an import returns is the bech32 encoding of the entry's
\* address under the ring's prefix.
C8_AccountUnderRingPrefix ==
    (ReturnedEntry /\ account_prefix # "") =>
        bech32_encode(account_prefix, Unwrap(result).address)
            = Ok(Unwrap(result).account)

\* The key file of the last import and the bytes its pubkey decodes to.
ImportedKeyFile == op.content.body

ImportedPubKeyBytes == Unwrap(encoded_pubkey_bytes(ImportedKeyFile.pubkey))

\* The key files that differ from key_file in one byte of the decoded
\* pubkey, at one of the given positions.
Tampered(key_file, bytes, positions) ==
    UNION {{[key_file EXCEPT !.pubkey = encode_pubkey([bytes EXCEPT ![i] = b])] :
               b \in Byte \ {bytes[i]}} : i \in positions}

ImportSucceeded == op.name = "key_from_seed_file" /\ IsOk(result)

\* C4, as claimed: after a successful import, changing any one byte of
\* the pubkey makes the import fail with PublicKeyMismatch.
C4_AnyByteTamperDetected ==
    ImportSucceeded =>
        \A kf \in Tampered(ImportedKeyFile, ImportedPubKeyBytes,
                           1..Len(ImportedPubKeyBytes)) :
            try_from(kf).kind = "PublicKeyMismatch"

\* C4, amended: after a successful import, changing any one of the
\* trailing bytes of the decoded pubkey, those compared with the derived
\* key, makes the import fail with PublicKeyMismatch; changing one of the
\* leading bytes that are stripped off changes nothing of the outcome.
C4_TrailingByteTamperDetected ==
    ImportSucceeded =>
        LET bytes == ImportedPubKeyBytes
            derived == to_bytes(Unwrap(result).public_key.public_key)
            stripped == Len(bytes) - Len(derived)
        IN  /\ \A kf \in Tampered(ImportedKeyFile, bytes,
                                  (stripped + 1)..Len(bytes)) :
                   try_from(kf).kind = "PublicKeyMismatch"
            /\ \A kf \in Tampered(ImportedKeyFile, bytes, 1..stripped) :
                   try_from(kf) = result

\* C4 witness: an import succeeded on a pubkey with leading bytes.
C4_Witness ==
    /\ ImportSucceeded
    /\ Len(ImportedPubKeyBytes)
           > Len(to_bytes(Unwrap(result).public_key.public_key))

\* C7: importing the key file exported from a derived entry (its account,
\* its encoded public key, the mnemonic, the coin type) returns that entry.
C7_RoundTrip ==
    \A m \in Mnemonics, c \in CoinTypes, lead \in ByteSeqs(MaxLead) :
        LET derived == derive_entry(account_prefix, m, c)
        IN  (/\ IsOk(derived)
             /\ op.name = "key_from_seed_file"
             /\ op.content = Document(ExportKeyFile(Unwrap(derived), lead, m)))
                => result = derived

\* C7 witness: the export of an entry derived under another coin type than
\* the default was imported and gave the entry back.
C7_Witness ==
    /\ ImportSucceeded
    /\ Unwrap(result).coin_type # CoinTypeDefault
    /\ \E m \in Mnemonics, lead \in ByteSeqs(MaxLead) :
           /\ lead # <<>>
           /\ ImportedKeyFile = ExportKeyFile(Unwrap(result), lead, m)
           /\ derive_entry(account_prefix, m, Unwrap(result).coin_type) = result

\* C10: an import never panics; a key file whose address and mnemonic are
\* valid and whose decoded pubkey is shorter than the derived public key
\* is refused with InvalidKey.
C10_ShortPubKeyIsInvalidKey ==
    op.name = "key_from_seed_file" =>
        /\ result.kind # "Panic"
        /\ (/\ op.content.doc = "KeyFile"
            /\ IsOk(decode_bech32(ImportedKeyFile.address))
            /\ IsOk(encoded_pubkey_bytes(ImportedKeyFile.pubkey))
            /\ IsOk(private_key_from_mnemonic(
                        ImportedKeyFile.mnemonic,
                        unwrap_or_default(ImportedKeyFile.coin_type)))
            /\ Len(ImportedPubKeyBytes) < PubKeyLen)
               => result.kind = "InvalidKey"

====
